---------------------------- MODULE Spec2Model ----------------------------
(***************************************************************************)
(* A model of sqlextraction (src/main.go): the Extractor (ExtractQuery),   *)
(* the pool configuration (Connection), the concurrent replay executor     *)
(* (QueryConcurrency) and the driver (main).                               *)
(*                                                                         *)
(* Text is modelled as sequences of characters (one-element strings; a     *)
(* rune outside ASCII is a token such as "U+017F").  A capture file is a   *)
(* JSON value given as a tagged record.  Goroutines are anonymous: the     *)
(* running units form a bag of goroutine states.                           *)
(***************************************************************************)
EXTENDS Integers, Sequences, FiniteSets, Bags, TLC

(***************************************************************************)
(* Bounds of the model.                                                    *)
(***************************************************************************)
\* largest number of entries of a capture file replayed under Spec
MaxEntries == 3
\* largest number of array elements of a capture file under SpecExtract
MaxElems == 2
\* under SpecPool: the entries beyond the pool's cap on open connections
PoolExcess == 1
\* under SpecPool: the queries the database answers; the others hang
PoolAnswers == 1

(***************************************************************************)
(* Characters.                                                             *)
(***************************************************************************)
UpperSeq ==
  << "A","B","C","D","E","F","G","H","I","J","K","L","M",
     "N","O","P","Q","R","S","T","U","V","W","X","Y","Z" >>

LowerSeq ==
  << "a","b","c","d","e","f","g","h","i","j","k","l","m",
     "n","o","p","q","r","s","t","u","v","w","x","y","z" >>

Digits == {"0","1","2","3","4","5","6","7","8","9"}

Range(s) == { s[i] : i \in DOMAIN s }

\* U+017F (LATIN SMALL LETTER LONG S) is in the simple-fold orbit of S
LongS == "U+017F"
\* U+00E9 (e with acute): a letter, but no ASCII word character
EAcute == "U+00E9"

\* RE2's \w, the class \b is defined by: [0-9A-Za-z_], ASCII only
IsWordChar(c) == c \in Range(UpperSeq) \cup Range(LowerSeq) \cup Digits \cup {"_"}

\* (?i): a literal matches every rune of its simple-fold orbit; the orbit is
\* named here by its upper-case member
Fold(c) ==
  IF c \in Range(LowerSeq)
    THEN UpperSeq[CHOOSE i \in DOMAIN LowerSeq : LowerSeq[i] = c]
    ELSE IF c = LongS THEN "S" ELSE c

(***************************************************************************)
(* The pattern of ExtractQuery:                                            *)
(*   (?i)\b(SELECT|INSERT|UPDATE|DELETE|WITH RECURSIVE)\b[\s\S]*           *)
(***************************************************************************)
Keywords ==
  << << "S","E","L","E","C","T" >>,
     << "I","N","S","E","R","T" >>,
     << "U","P","D","A","T","E" >>,
     << "D","E","L","E","T","E" >>,
     << "W","I","T","H"," ","R","E","C","U","R","S","I","V","E" >> >>

\* \b at the gap before position i of s (1 <= i <= Len(s) + 1): exactly one
\* of the runes next to the gap is a word character; the text's ends count
\* as non-word
WordBoundary(s, i) ==
  LET before == i > 1 /\ IsWordChar(s[i - 1])
      after  == i <= Len(s) /\ IsWordChar(s[i])
  IN  before # after

\* the literal kw, under (?i), at position i of s
LiteralAt(s, i, kw) ==
  /\ i + Len(kw) - 1 <= Len(s)
  /\ \A j \in 1..Len(kw) : Fold(s[i + j - 1]) = Fold(kw[j])

\* the whole pattern matches at position i: [\s\S]* takes any rest
MatchAt(s, i) ==
  /\ WordBoundary(s, i)
  /\ \E k \in DOMAIN Keywords :
       /\ LiteralAt(s, i, Keywords[k])
       /\ WordBoundary(s, i + Len(Keywords[k]))

RECURSIVE FindFrom(_, _)
\* the leftmost match at or after position i; [\s\S]* is greedy, so the
\* match runs to the end of s
FindFrom(s, i) ==
  IF i > Len(s) THEN << >>
  ELSE IF MatchAt(s, i) THEN SubSeq(s, i, Len(s))
  ELSE FindFrom(s, i + 1)

\* re.FindString
FindString(s) == FindFrom(s, 1)

(***************************************************************************)
(* JSON values and encoding/json's Unmarshal into []*LogEntry.             *)
(***************************************************************************)
JNull == [t |-> "null"]
JNumber == [t |-> "number"]
JString(s) == [t |-> "string", s |-> s]
JArray(elems) == [t |-> "array", elems |-> elems]
\* fields: a function from member names to JSON values
JObject(fields) == [t |-> "object", fields |-> fields]
NoFields == << >>

\* the Go values
NilEntry == [nil |-> TRUE]
LogEntry(msg) == [nil |-> FALSE, Message |-> msg]

\* Each decoder yields [ok, v]: ok is FALSE when the JSON value cannot be
\* stored in the Go type (an UnmarshalTypeError is saved and decoding goes
\* on); a JSON null leaves the Go value as it is, a missing member too.
DecodeMessage(v) ==
  CASE v.t = "string" -> [ok |-> TRUE, v |-> v.s]
    [] v.t = "null"   -> [ok |-> TRUE, v |-> << >>]
    [] OTHER          -> [ok |-> FALSE, v |-> << >>]

DecodeJsonPayload(v) ==
  CASE v.t = "object" ->
         IF "message" \in DOMAIN v.fields
           THEN DecodeMessage(v.fields["message"])
           ELSE [ok |-> TRUE, v |-> << >>]
    [] v.t = "null"   -> [ok |-> TRUE, v |-> << >>]
    [] OTHER          -> [ok |-> FALSE, v |-> << >>]

\* an element of the array, into *LogEntry
DecodeLogEntry(v) ==
  CASE v.t = "null"   -> [ok |-> TRUE, v |-> NilEntry]
    [] v.t = "object" ->
         IF "jsonPayload" \in DOMAIN v.fields
           THEN LET p == DecodeJsonPayload(v.fields["jsonPayload"])
                IN  [ok |-> p.ok, v |-> LogEntry(p.v)]
           ELSE [ok |-> TRUE, v |-> LogEntry(<< >>)]
    [] OTHER          -> [ok |-> FALSE, v |-> LogEntry(<< >>)]

\* json.Unmarshal(data, &logs) for data that is syntactically JSON
Unmarshal(v) ==
  CASE v.t = "array" ->
         LET d == [i \in DOMAIN v.elems |-> DecodeLogEntry(v.elems[i])]
         IN  [ok   |-> \A i \in DOMAIN d : d[i].ok,
              logs |-> [i \in DOMAIN d |-> d[i].v]]
    [] v.t = "null"  -> [ok |-> TRUE, logs |-> << >>]
    [] OTHER         -> [ok |-> FALSE, logs |-> << >>]

(***************************************************************************)
(* ExtractQuery.  A file is [kind |-> "unreadable"], [kind |-> "malformed"]*)
(* (not JSON) or [kind |-> "json", value |-> v].  The result is            *)
(* [outcome, logs]: "ok" with the entries, "IOError", "DecodeError", or    *)
(* "nilpanic" when the loop dereferences a nil *LogEntry.                  *)
(***************************************************************************)
\* a plausible slip: entries with no SQL are dropped from the result
RewriteDropEmpty(logs) ==
  SelectSeq([i \in DOMAIN logs |-> LogEntry(FindString(logs[i].Message))],
            LAMBDA l : l.Message # << >>)

\* the loop of lines 56-59 over entries none of which is nil
Rewrite(logs) == [i \in DOMAIN logs |-> LogEntry(FindString(logs[i].Message))]

ExtractQuery(file) ==
  IF file.kind = "unreadable" THEN [outcome |-> "IOError", logs |-> << >>]
  ELSE IF file.kind = "malformed" THEN [outcome |-> "DecodeError", logs |-> << >>]
  ELSE LET u == Unmarshal(file.value)
       IN  IF ~u.ok THEN [outcome |-> "DecodeError", logs |-> << >>]
           ELSE IF \E i \in DOMAIN u.logs : u.logs[i].nil
                  THEN [outcome |-> "nilpanic", logs |-> << >>]
                  ELSE [outcome |-> "ok", logs |-> Rewrite(u.logs)]


(***************************************************************************)
(* The state of one run of the program.                                    *)
(***************************************************************************)
VARIABLES
  config,         \* the flags: User, Password, DBName, SqlFile ("" if absent)
  file,           \* the capture file named by sql_file
  dbAnswers,      \* how many queries the database will still answer
  pc,             \* where main is
  logs,           \* the entries ExtractQuery returned
  db,             \* the pooled handle Connection returned
  launched,       \* entries the loop of line 86 has gone through
  units,          \* the goroutines of line 88: a bag of [sql, pc, err, tmp]
  wg,             \* the WaitGroup's counter
  m,              \* the mutex: TRUE when locked
  numberSuccess,  \* the shared counter
  errChan,        \* the buffered errors, oldest first
  chanCap,        \* cap(errChan)
  closed,         \* errChan is closed
  ret,            \* what QueryConcurrency returned: [n, err]
  stdout,         \* what was printed, in order
  numOpen,        \* physical connections of the pool, in use or idle
  idle,           \* idle connections of the pool
  issued,         \* the statements sent to the database: a bag
  firstSent,      \* the error of the first send on errChan (history)
  extractErr      \* the err of line 154: "none", "IOError" or "DecodeError"

vars == << config, file, dbAnswers, pc, logs, db, launched, units, wg, m,
           numberSuccess, errChan, chanCap, closed, ret, stdout, numOpen,
           idle, issued, firstSent, extractErr >>

\* error values
NoErr == [kind |-> "nil", sql |-> << >>]
ConnectError == [kind |-> "ConnectError", sql |-> << >>]
\* what conn.Query returns for a statement the database rejects
QueryError(sql) == [kind |-> "QueryError", sql |-> sql]

\* lines 68-71; SetMaxIdleConns(0.1 * 80) is SetMaxIdleConns(8)
MaxIdleConns == 8
ConnMaxLifetime == 30
ConnMaxIdleTime == 15
MaxOpenConns == 70

NoDB == [open |-> FALSE, maxIdle |-> 0, maxLifetime |-> 0, maxIdleTime |-> 0,
         maxOpen |-> 0]

\* a plausible slip: the cap on open connections is never set; database/sql
\* then keeps its default, 0, which means no limit
ConnectionNoCap ==
  [open |-> TRUE, maxIdle |-> MaxIdleConns, maxLifetime |-> ConnMaxLifetime,
   maxIdleTime |-> ConnMaxIdleTime, maxOpen |-> 0]

\* the handle Connection returns when sql.Open succeeds
Connection ==
  [open |-> TRUE, maxIdle |-> MaxIdleConns, maxLifetime |-> ConnMaxLifetime,
   maxIdleTime |-> ConnMaxIdleTime, maxOpen |-> MaxOpenConns]

\* database/sql: a caller of conn.Query gets a connection when one is idle
\* or when the pool may open one more (maxOpen <= 0: no limit)
PoolMayOpen == db.maxOpen <= 0 \/ numOpen < db.maxOpen

(***************************************************************************)
(* main, lines 115-169.                                                    *)
(***************************************************************************)
\* lines 140-151
ConfigMissing(c) ==
  c.User = "" \/ c.Password = "" \/ c.DBName = "" \/ c.SqlFile = ""

\* lines 140-151: log.Fatalf ends the process
MainConfig ==
  /\ pc = "config"
  /\ pc' = IF ConfigMissing(config) THEN "fatal" ELSE "extract"
  /\ UNCHANGED << config, file, dbAnswers, logs, db, launched, units, wg, m,
                  numberSuccess, errChan, chanCap, closed, ret, stdout,
                  numOpen, idle, issued, firstSent, extractErr >>

\* lines 154-157: an error panics, and so does the nil dereference of line 57
MainExtract ==
  /\ pc = "extract"
  /\ LET r == ExtractQuery(file)
     IN  /\ logs' = r.logs
         /\ extractErr' = IF r.outcome \in {"IOError", "DecodeError"}
                            THEN r.outcome ELSE "none"
         /\ pc' = CASE r.outcome = "ok"       -> "connect"
                    [] r.outcome = "nilpanic" -> "nilpanic"
                    [] OTHER                  -> "extractpanic"
  /\ UNCHANGED << config, file, dbAnswers, db, launched, units, wg, m,
                  numberSuccess, errChan, chanCap, closed, ret, stdout,
                  numOpen, idle, issued, firstSent >>

\* a plausible slip: the error of Connection is ignored and the loop runs
ConnectFailedGoesOn == "launch"

\* lines 78-80: where QueryConcurrency goes when Connection fails
ConnectFailed == "summary"

\* a plausible slip: a buffer one short of the number of entries
ErrChanOneShort == Len(logs) - 1

\* line 85: make(chan error, len(logs))
ErrChanCap == Len(logs)

\* lines 76-85: sql.Open may fail; otherwise the handle, the counter, the
\* WaitGroup and the channel of capacity len(logs) are set up
MainConnect ==
  /\ pc = "connect"
  /\ \/ /\ db' = Connection
        /\ chanCap' = ErrChanCap
        /\ pc' = "launch"
        /\ ret' = ret
     \/ /\ db' = db
        /\ chanCap' = chanCap
        /\ ret' = [n |-> 0, err |-> ConnectError]
        /\ pc' = ConnectFailed
  /\ UNCHANGED << config, file, dbAnswers, logs, launched, units, wg, m,
                  numberSuccess, errChan, closed, stdout, numOpen, idle,
                  issued, firstSent, extractErr >>

\* a plausible slip: the goroutine reads the loop's entry through a closure
\* instead of taking the statement as its argument (line 105), and finds
\* the entry the loop ended on
UnitCapturesLoopVar(sql) ==
  [sql |-> logs[Len(logs)].Message, pc |-> "start", err |-> NoErr, tmp |-> 0]

\* lines 88-89, 105: the goroutine of one entry, started with its statement
Unit(sql) == [sql |-> sql, pc |-> "start", err |-> NoErr, tmp |-> 0]

\* lines 86-88 and 105: wg.Add(1), then the goroutine is started with the
\* entry's message; after the last entry main goes on to wg.Wait()
MainLaunch ==
  /\ pc = "launch"
  /\ IF launched < Len(logs)
       THEN /\ wg' = wg + 1
            /\ units' = units (+) SetToBag({Unit(logs[launched + 1].Message)})
            /\ launched' = launched + 1
            /\ pc' = pc
       ELSE /\ pc' = "wait"
            /\ UNCHANGED << wg, units, launched >>
  /\ UNCHANGED << config, file, dbAnswers, logs, db, m, numberSuccess,
                  errChan, chanCap, closed, ret, stdout, numOpen, idle,
                  issued, firstSent, extractErr >>

\* a plausible slip: no barrier
WaitReturnsAlways == TRUE

\* wg.Wait() returns when the counter is 0
WaitReturns == wg = 0

\* line 107
MainWait ==
  /\ pc = "wait"
  /\ WaitReturns
  /\ pc' = "close"
  /\ UNCHANGED << config, file, dbAnswers, logs, db, launched, units, wg, m,
                  numberSuccess, errChan, chanCap, closed, ret, stdout,
                  numOpen, idle, issued, firstSent, extractErr >>

\* line 108
MainClose ==
  /\ pc = "close"
  /\ closed' = TRUE
  /\ pc' = "result"
  /\ UNCHANGED << config, file, dbAnswers, logs, db, launched, units, wg, m,
                  numberSuccess, errChan, chanCap, ret, stdout, numOpen, idle,
                  issued, firstSent, extractErr >>

\* a plausible slip: the count of the units that succeeded is returned
\* together with the error
ResultPartial(n, ch) ==
  IF Len(ch) > 0 THEN [n |-> n, err |-> Head(ch)] ELSE [n |-> n, err |-> NoErr]

\* a plausible slip: the newest buffered error is returned
ResultNewest(n, ch) ==
  IF Len(ch) > 0 THEN [n |-> 0, err |-> ch[Len(ch)]] ELSE [n |-> n, err |-> NoErr]

\* lines 109-112
Result(n, ch) ==
  IF Len(ch) > 0 THEN [n |-> 0, err |-> Head(ch)] ELSE [n |-> n, err |-> NoErr]

\* lines 109-112: the receive takes the oldest buffered error
MainResult ==
  /\ pc = "result"
  /\ ret' = Result(numberSuccess, errChan)
  /\ errChan' = IF Len(errChan) > 0 THEN Tail(errChan) ELSE errChan
  /\ pc' = "summary"
  /\ UNCHANGED << config, file, dbAnswers, logs, db, launched, units, wg, m,
                  numberSuccess, chanCap, closed, stdout, numOpen, idle,
                  issued, firstSent, extractErr >>

Summary(n, total) == [what |-> "summary", n |-> n, total |-> total, sql |-> << >>]
Diagnostic(sql) == [what |-> "diagnostic", n |-> 0, total |-> 0, sql |-> sql]

\* a plausible slip: the check of line 166 made before the summary, so that
\* a failed run ends without one
MainSummaryOnSuccessOnly ==
  /\ pc = "summary"
  /\ stdout' = IF ret.err = NoErr
                 THEN Append(stdout, Summary(ret.n, Len(logs))) ELSE stdout
  /\ pc' = "exit"
  /\ UNCHANGED << config, file, dbAnswers, logs, db, launched, units, wg, m,
                  numberSuccess, errChan, chanCap, closed, ret, numOpen, idle,
                  issued, firstSent, extractErr >>

\* lines 161-164
MainSummary ==
  /\ pc = "summary"
  /\ stdout' = Append(stdout, Summary(ret.n, Len(logs)))
  /\ pc' = "exit"
  /\ UNCHANGED << config, file, dbAnswers, logs, db, launched, units, wg, m,
                  numberSuccess, errChan, chanCap, closed, ret, numOpen, idle,
                  issued, firstSent, extractErr >>

\* lines 166-168
MainExit ==
  /\ pc = "exit"
  /\ pc' = IF ret.err # NoErr THEN "panicked" ELSE "exited"
  /\ UNCHANGED << config, file, dbAnswers, logs, db, launched, units, wg, m,
                  numberSuccess, errChan, chanCap, closed, ret, stdout,
                  numOpen, idle, issued, firstSent, extractErr >>


(***************************************************************************)
(* One unit: the goroutine of lines 88-105.                                *)
(***************************************************************************)
\* the bag with unit u replaced by unit v
Moved(u, v) == (units (-) SetToBag({u})) (+) SetToBag({v})

At(u, where) == u \in BagToSet(units) /\ u.pc = where

\* database/sql, putConn: a released connection is kept idle when fewer than
\* maxIdle are, and closed otherwise
Released ==
  IF idle < db.maxIdle
    THEN /\ idle' = idle + 1
         /\ numOpen' = numOpen
    ELSE /\ idle' = idle
         /\ numOpen' = numOpen - 1

\* a plausible slip: m.Lock() moved up, before conn.Query
UnitAcquireUnderLock(u) ==
  /\ At(u, "start")
  /\ ~m
  /\ m' = TRUE
  /\ \/ /\ idle > 0
        /\ idle' = idle - 1
        /\ numOpen' = numOpen
     \/ /\ idle = 0
        /\ PoolMayOpen
        /\ idle' = idle
        /\ numOpen' = numOpen + 1
  /\ issued' = issued (+) SetToBag({u.sql})
  /\ units' = Moved(u, [u EXCEPT !.pc = "query"])
  /\ UNCHANGED << config, file, dbAnswers, pc, logs, db, launched, wg,
                  numberSuccess, errChan, chanCap, closed, ret, stdout,
                  firstSent, extractErr >>

\* line 91, first half: conn.Query waits in the pool for a connection and
\* sends the statement on it
UnitAcquire(u) ==
  /\ At(u, "start")
  /\ \/ /\ idle > 0
        /\ idle' = idle - 1
        /\ numOpen' = numOpen
     \/ /\ idle = 0
        /\ PoolMayOpen
        /\ idle' = idle
        /\ numOpen' = numOpen + 1
  /\ issued' = issued (+) SetToBag({u.sql})
  /\ units' = Moved(u, [u EXCEPT !.pc = "query"])
  /\ UNCHANGED << config, file, dbAnswers, pc, logs, db, launched, wg, m,
                  numberSuccess, errChan, chanCap, closed, ret, stdout,
                  firstSent, extractErr >>

\* line 91, second half: the database answers with rows, which keep the
\* connection until they are closed
UnitQueryOk(u) ==
  /\ At(u, "query")
  /\ dbAnswers > 0
  /\ dbAnswers' = dbAnswers - 1
  /\ units' = Moved(u, [u EXCEPT !.pc = "lock"])
  /\ UNCHANGED << config, file, pc, logs, db, launched, wg, m, numberSuccess,
                  errChan, chanCap, closed, ret, stdout, numOpen, idle,
                  issued, firstSent, extractErr >>

\* what the code does not do: a deadline (QueryContext with a timeout) that
\* makes conn.Query return an error without an answer of the database
UnitQueryTimesOut(u) ==
  /\ At(u, "query")
  /\ dbAnswers' = dbAnswers
  /\ Released
  /\ units' = Moved(u, [u EXCEPT !.pc = "print", !.err = QueryError(u.sql)])
  /\ UNCHANGED << config, file, pc, logs, db, launched, wg, m, numberSuccess,
                  errChan, chanCap, closed, ret, stdout, issued, firstSent, extractErr >>

\* line 91, second half: the database answers with an error; conn.Query
\* gives the connection back before it returns
UnitQueryErr(u) ==
  /\ At(u, "query")
  /\ dbAnswers > 0
  /\ dbAnswers' = dbAnswers - 1
  /\ Released
  /\ units' = Moved(u, [u EXCEPT !.pc = "print", !.err = QueryError(u.sql)])
  /\ UNCHANGED << config, file, pc, logs, db, launched, wg, m, numberSuccess,
                  errChan, chanCap, closed, ret, stdout, issued, firstSent, extractErr >>

\* a plausible slip: the failure is passed on without its diagnostics
UnitPrintNothing(u) ==
  /\ At(u, "print")
  /\ stdout' = stdout
  /\ units' = Moved(u, [u EXCEPT !.pc = "send"])
  /\ UNCHANGED << config, file, dbAnswers, pc, logs, db, launched, wg, m,
                  numberSuccess, errChan, chanCap, closed, ret, numOpen, idle,
                  issued, firstSent, extractErr >>

\* lines 93-97
UnitPrint(u) ==
  /\ At(u, "print")
  /\ stdout' = Append(stdout, Diagnostic(u.sql))
  /\ units' = Moved(u, [u EXCEPT !.pc = "send"])
  /\ UNCHANGED << config, file, dbAnswers, pc, logs, db, launched, wg, m,
                  numberSuccess, errChan, chanCap, closed, ret, numOpen, idle,
                  issued, firstSent, extractErr >>

\* lines 98-99: the send waits while the buffer is full, and panics on a
\* closed channel
UnitSend(u) ==
  /\ At(u, "send")
  /\ closed \/ Len(errChan) < chanCap
  /\ IF closed
       THEN /\ units' = Moved(u, [u EXCEPT !.pc = "sendpanic"])
            /\ UNCHANGED << errChan, firstSent, extractErr >>
       ELSE /\ errChan' = Append(errChan, u.err)
            /\ firstSent' = IF firstSent = NoErr THEN u.err ELSE firstSent
            /\ units' = Moved(u, [u EXCEPT !.pc = "done"])
  /\ UNCHANGED << config, file, dbAnswers, pc, logs, db, launched, wg, m,
                  numberSuccess, chanCap, closed, ret, stdout, numOpen, idle,
                  issued, extractErr >>

\* a plausible slip: the counter is updated without the mutex
LockFreeAlways == TRUE

\* m.Lock() returns when the mutex is free
LockFree == ~m

\* line 101
UnitLock(u) ==
  /\ At(u, "lock")
  /\ LockFree
  /\ m' = TRUE
  /\ units' = Moved(u, [u EXCEPT !.pc = "read"])
  /\ UNCHANGED << config, file, dbAnswers, pc, logs, db, launched, wg,
                  numberSuccess, errChan, chanCap, closed, ret, stdout,
                  numOpen, idle, issued, firstSent, extractErr >>

\* line 102, the read of numberSuccess
UnitRead(u) ==
  /\ At(u, "read")
  /\ units' = Moved(u, [u EXCEPT !.pc = "write", !.tmp = numberSuccess])
  /\ UNCHANGED << config, file, dbAnswers, pc, logs, db, launched, wg, m,
                  numberSuccess, errChan, chanCap, closed, ret, stdout,
                  numOpen, idle, issued, firstSent, extractErr >>

\* line 102, the write of numberSuccess
UnitWrite(u) ==
  /\ At(u, "write")
  /\ numberSuccess' = u.tmp + 1
  /\ units' = Moved(u, [u EXCEPT !.pc = "unlock", !.tmp = 0])
  /\ UNCHANGED << config, file, dbAnswers, pc, logs, db, launched, wg, m,
                  errChan, chanCap, closed, ret, stdout, numOpen, idle,
                  issued, firstSent, extractErr >>

\* a plausible slip: m.Unlock() left out
UnitUnlockForgotten(u) ==
  /\ At(u, "unlock")
  /\ m' = m
  /\ units' = Moved(u, [u EXCEPT !.pc = "rowsclose"])
  /\ UNCHANGED << config, file, dbAnswers, pc, logs, db, launched, wg,
                  numberSuccess, errChan, chanCap, closed, ret, stdout,
                  numOpen, idle, issued, firstSent, extractErr >>

\* line 103
UnitUnlock(u) ==
  /\ At(u, "unlock")
  /\ m' = FALSE
  /\ units' = Moved(u, [u EXCEPT !.pc = "rowsclose"])
  /\ UNCHANGED << config, file, dbAnswers, pc, logs, db, launched, wg,
                  numberSuccess, errChan, chanCap, closed, ret, stdout,
                  numOpen, idle, issued, firstSent, extractErr >>

\* a plausible slip: rows.Close() left out, the connection stays in use
UnitRowsNeverClosed(u) ==
  /\ At(u, "rowsclose")
  /\ idle' = idle
  /\ numOpen' = numOpen
  /\ units' = Moved(u, [u EXCEPT !.pc = "done"])
  /\ UNCHANGED << config, file, dbAnswers, pc, logs, db, launched, wg, m,
                  numberSuccess, errChan, chanCap, closed, ret, stdout,
                  issued, firstSent, extractErr >>

\* line 104: the deferred rows.Close() runs when the function returns, before
\* the deferred wg.Done(); it gives the connection back to the pool
UnitRowsClose(u) ==
  /\ At(u, "rowsclose")
  /\ Released
  /\ units' = Moved(u, [u EXCEPT !.pc = "done"])
  /\ UNCHANGED << config, file, dbAnswers, pc, logs, db, launched, wg, m,
                  numberSuccess, errChan, chanCap, closed, ret, stdout,
                  issued, firstSent, extractErr >>

\* line 90: the deferred wg.Done()
UnitDone(u) ==
  /\ At(u, "done")
  /\ wg' = wg - 1
  /\ units' = Moved(u, [u EXCEPT !.pc = "finished"])
  /\ UNCHANGED << config, file, dbAnswers, pc, logs, db, launched, m,
                  numberSuccess, errChan, chanCap, closed, ret, stdout,
                  numOpen, idle, issued, firstSent, extractErr >>

\* database/sql's connection cleaner (lines 69-70): an idle connection past
\* its idle time or lifetime is closed
PoolReap ==
  /\ db.open
  /\ idle > 0
  /\ idle' = idle - 1
  /\ numOpen' = numOpen - 1
  /\ UNCHANGED << config, file, dbAnswers, pc, logs, db, launched, units, wg,
                  m, numberSuccess, errChan, chanCap, closed, ret, stdout,
                  issued, firstSent, extractErr >>

(***************************************************************************)
(* The inputs and the specifications.                                      *)
(***************************************************************************)
Configs ==
  [User : {"", "u"}, Password : {"", "p"}, DBName : {"", "d"},
   SqlFile : {"", "f"}]

FullConfig == [User |-> "u", Password |-> "p", DBName |-> "d", SqlFile |-> "f"]

\* messages
MsgSelect == << "S","E","L","E","C","T"," ","1" >>
MsgUpdate == << "e","r","r","\n","U","P","D","A","T","E"," ","t" >>
MsgNoSql  == << "n","o"," ","s","q","l" >>
MsgPool == << MsgSelect, MsgNoSql, MsgUpdate >>

Envelope(msg) == JObject([jsonPayload |-> JObject([message |-> JString(msg)])])
JsonFile(v) == [kind |-> "json", value |-> v]

\* the capture file of n entries: the messages of MsgPool, in turn
CaptureFile(n) ==
  JsonFile(JArray([i \in 1..n |-> Envelope(MsgPool[((i - 1) % Len(MsgPool)) + 1])]))

BadFiles ==
  { [kind |-> "unreadable"], [kind |-> "malformed"],
    JsonFile(JNull), JsonFile(JNumber),
    JsonFile(JArray(<< JNull >>)),
    JsonFile(JArray(<< JObject(NoFields) >>)),
    JsonFile(JArray(<< Envelope(MsgSelect), JNumber >>)) }

Files == { CaptureFile(n) : n \in 0..MaxEntries } \cup BadFiles

Start ==
  /\ pc = "config"
  /\ logs = << >>
  /\ db = NoDB
  /\ launched = 0
  /\ units = EmptyBag
  /\ wg = 0
  /\ m = FALSE
  /\ numberSuccess = 0
  /\ errChan = << >>
  /\ chanCap = 0
  /\ closed = FALSE
  /\ ret = [n |-> 0, err |-> NoErr]
  /\ stdout = << >>
  /\ numOpen = 0
  /\ idle = 0
  /\ issued = EmptyBag
  /\ firstSent = NoErr
  /\ extractErr = "none"

Init ==
  /\ config \in Configs
  /\ file \in Files
  /\ dbAnswers = MaxEntries
  /\ Start

Next ==
  \/ MainConfig
  \/ MainExtract
  \/ MainConnect
  \/ MainLaunch
  \/ MainWait
  \/ MainClose
  \/ MainResult
  \/ MainSummary
  \/ MainExit
  \/ \E u \in BagToSet(units) : UnitAcquire(u)
  \/ \E u \in BagToSet(units) : UnitQueryOk(u)
  \/ \E u \in BagToSet(units) : UnitQueryErr(u)
  \/ \E u \in BagToSet(units) : UnitPrint(u)
  \/ \E u \in BagToSet(units) : UnitSend(u)
  \/ \E u \in BagToSet(units) : UnitLock(u)
  \/ \E u \in BagToSet(units) : UnitRead(u)
  \/ \E u \in BagToSet(units) : UnitWrite(u)
  \/ \E u \in BagToSet(units) : UnitUnlock(u)
  \/ \E u \in BagToSet(units) : UnitRowsClose(u)
  \/ \E u \in BagToSet(units) : UnitDone(u)
  \/ PoolReap

Spec == Init /\ [][Next]_vars


(***************************************************************************)
(* SpecExtract: ExtractQuery applied to a wide set of capture files.       *)
(***************************************************************************)
Lower(s) ==
  [i \in DOMAIN s |->
     IF s[i] \in Range(UpperSeq)
       THEN LowerSeq[CHOOSE j \in DOMAIN UpperSeq : UpperSeq[j] = s[i]]
       ELSE s[i]]

\* first letter upper case, the rest lower case
Capitalised(s) == [i \in DOMAIN s |-> IF i = 1 THEN s[i] ELSE Lower(s)[i]]

Pres ==
  { << >>, << "x", " " >>, << "x" >>, << "\n" >>, << "_" >>, << "1" >>,
    << EAcute >>, << "s","e","l","e","c","t","e","d"," " >> }

KeywordForms ==
  UNION { { Keywords[k], Lower(Keywords[k]), Capitalised(Keywords[k]) } :
          k \in DOMAIN Keywords }
  \cup { << LongS,"E","L","E","C","T" >>,
         << "W","I","T","H" >>,
         << "W","I","T","H"," "," ","R","E","C","U","R","S","I","V","E" >>,
         << "S","E","L","E","C" >> }

Posts ==
  { << >>, << " ", "1" >>, << "X" >>, << "\n", "x" >>, << "_" >>,
    << ";","d","e","l","e","t","e" >> }

Messages ==
  { pre \o kw \o post : pre \in Pres, kw \in KeywordForms, post \in Posts }
  \cup { MsgNoSql, MsgUpdate, << >> }

\* array elements, of the expected shape and not
Elements ==
  { JNull, JNumber, JString(MsgSelect), JObject(NoFields),
    JObject([jsonPayload |-> JNull]),
    JObject([jsonPayload |-> JNumber]),
    JObject([jsonPayload |-> JObject(NoFields)]),
    JObject([jsonPayload |-> JObject([message |-> JNull])]),
    JObject([jsonPayload |-> JObject([message |-> JNumber])]),
    JObject([other |-> JNumber]),
    Envelope(MsgSelect), Envelope(MsgNoSql), Envelope(MsgUpdate) }

ExtractFiles ==
  { [kind |-> "unreadable"], [kind |-> "malformed"],
    JsonFile(JNull), JsonFile(JNumber), JsonFile(JString(MsgSelect)),
    JsonFile(JObject(NoFields)), JsonFile(Envelope(MsgSelect)) }
  \cup { JsonFile(JArray(<< Envelope(msg) >>)) : msg \in Messages }
  \cup { JsonFile(JArray(a)) : a \in UNION { [1..n -> Elements] : n \in 0..MaxElems } }

InitExtract ==
  /\ config = FullConfig
  /\ file \in ExtractFiles
  /\ dbAnswers = 0
  /\ Start

NextExtract ==
  \/ MainConfig
  \/ MainExtract

SpecExtract == InitExtract /\ [][NextExtract]_vars

(***************************************************************************)
(* SpecPool: more entries than the pool may open connections, replayed     *)
(* against a database that answers only PoolAnswers of the queries, up to  *)
(* the barrier (which such a run never passes).                            *)
(***************************************************************************)
PoolFile ==
  JsonFile(JArray([i \in 1..(MaxOpenConns + PoolExcess) |-> Envelope(MsgSelect)]))

InitPool ==
  /\ config = FullConfig
  /\ file = PoolFile
  /\ dbAnswers = PoolAnswers
  /\ Start

NextPool ==
  \/ MainConfig
  \/ MainExtract
  \/ MainConnect
  \/ MainLaunch
  \/ \E u \in BagToSet(units) : UnitAcquire(u)
  \/ \E u \in BagToSet(units) : UnitQueryOk(u)
  \/ \E u \in BagToSet(units) : UnitQueryErr(u)
  \/ \E u \in BagToSet(units) : UnitPrint(u)
  \/ \E u \in BagToSet(units) : UnitSend(u)
  \/ \E u \in BagToSet(units) : UnitLock(u)
  \/ \E u \in BagToSet(units) : UnitRead(u)
  \/ \E u \in BagToSet(units) : UnitWrite(u)
  \/ \E u \in BagToSet(units) : UnitUnlock(u)
  \/ \E u \in BagToSet(units) : UnitRowsClose(u)
  \/ \E u \in BagToSet(units) : UnitDone(u)
  \/ PoolReap

SpecPool == InitPool /\ [][NextPool]_vars

(***************************************************************************)
(* The run under fair scheduling.  The small captures of Spec, which the   *)
(* database answers in full, together with the capture of SpecPool, whose  *)
(* units outnumber the pool's connections.                                 *)
(***************************************************************************)
InitLive == Init \/ InitPool

\* the main goroutine (lines 115-169 and 75-112) runs when it can
MainRuns ==
  \/ MainConfig \/ MainExtract \/ MainConnect \/ MainLaunch \/ MainWait
  \/ MainClose \/ MainResult \/ MainSummary \/ MainExit

\* the database answers a query in flight, while it answers at all
DatabaseAnswers ==
  \E u \in BagToSet(units) : UnitQueryOk(u) \/ UnitQueryErr(u)

\* The Go scheduler runs every runnable goroutine; sync.Mutex and the pool
\* of database/sql hand the lock or a released connection to a waiter.
Fairness ==
  /\ WF_vars(MainRuns)
  /\ WF_vars(DatabaseAnswers)
  /\ WF_vars(\E u \in BagToSet(units) : UnitAcquire(u))
  /\ WF_vars(\E u \in BagToSet(units) : UnitPrint(u))
  /\ WF_vars(\E u \in BagToSet(units) : UnitSend(u))
  /\ WF_vars(\E u \in BagToSet(units) : UnitLock(u))
  /\ WF_vars(\E u \in BagToSet(units) : UnitRead(u))
  /\ WF_vars(\E u \in BagToSet(units) : UnitWrite(u))
  /\ WF_vars(\E u \in BagToSet(units) : UnitUnlock(u))
  /\ WF_vars(\E u \in BagToSet(units) : UnitRowsClose(u))
  /\ WF_vars(\E u \in BagToSet(units) : UnitDone(u))

SpecLive == InitLive /\ [][Next]_vars /\ Fairness

(***************************************************************************)
(* The run against a database that leaves queries unanswered: it answers   *)
(* fewer queries than the largest capture has entries, the others hang.    *)
(***************************************************************************)
InitHung ==
  /\ config = FullConfig
  /\ file \in Files
  /\ dbAnswers \in 0..(MaxEntries - 1)
  /\ Start

SpecHung == InitHung /\ [][Next]_vars /\ Fairness


(***************************************************************************)
(* Vocabulary of the properties.                                           *)
(***************************************************************************)
\* the number of units whose state is in S
Number(S) == BagCardinality([u \in S \cap BagToSet(units) |-> units[u]])

\* conn.Query returned an error to the unit
QueryFailed(u) == u.err # NoErr
\* conn.Query returned rows to the unit
QuerySucceeded(u) == u.err = NoErr /\ u.pc \notin {"start", "query"}
\* the unit has called wg.Done()
Finished(u) == u.pc = "finished"
\* the unit has a connection of the pool: its query is in flight, or its
\* rows are not closed yet
HoldsConn(u) == u.pc \in {"query", "lock", "read", "write", "unlock", "rowsclose"}
\* the unit is inside conn.Query without a connection
WaitsInPool(u) == u.pc = "start"

\* the states of the units by what they have done
FailedUnits == { u \in BagToSet(units) : QueryFailed(u) }
SucceededUnits == { u \in BagToSet(units) : QuerySucceeded(u) }
FinishedUnits == { u \in BagToSet(units) : Finished(u) }
HoldingUnits == { u \in BagToSet(units) : HoldsConn(u) }
WaitingUnits == { u \in BagToSet(units) : WaitsInPool(u) }

\* QueryConcurrency has returned to main
Returned == pc \in {"summary", "exit", "panicked", "exited"}
\* ... after its loop ran, that is after Connection succeeded
ReturnedFromRun == Returned /\ db.open

(***************************************************************************)
(* C1.  Whenever at least one unit's query failed, QueryConcurrency        *)
(* returns the count 0 and a non-nil error, however many units succeeded;  *)
(* and the error it returns after running the units is nil exactly when no *)
(* unit failed.                                                            *)
(***************************************************************************)
C1_AllOrNothing ==
  ReturnedFromRun =>
    /\ (Number(FailedUnits) > 0 => ret.n = 0 /\ ret.err # NoErr)
    /\ (ret.err = NoErr <=> Number(FailedUnits) = 0)

\* a run returned with one unit failed and another one succeeded and counted
C1_Witness ==
  /\ ReturnedFromRun
  /\ Number(FailedUnits) > 0
  /\ Number(SucceededUnits) > 0
  /\ numberSuccess > 0
  /\ ret.n = 0

(***************************************************************************)
(* C2.  When the queries of all N units succeeded, QueryConcurrency        *)
(* returns the count N and a nil error, for every N >= 0.                  *)
(***************************************************************************)
C2_AllSucceed ==
  (ReturnedFromRun /\ Number(SucceededUnits) = Len(logs)) =>
    ret = [n |-> Len(logs), err |-> NoErr]

\* a run of at least two units, all successful, has returned
C2_Witness ==
  /\ ReturnedFromRun
  /\ Len(logs) >= 2
  /\ Number(SucceededUnits) = Len(logs)
  /\ ret.n = Len(logs)

(***************************************************************************)
(* C3.  Completion barrier: once main is past wg.Wait() - closing the      *)
(* channel, reading the channel and the counter, or returned - every entry *)
(* has been launched and every launched unit has called wg.Done(); no unit *)
(* is in its query or in the counter update.                               *)
(***************************************************************************)
C3_Barrier ==
  (pc \in {"close", "result"} \/ ReturnedFromRun) =>
    /\ launched = Len(logs)
    /\ BagCardinality(units) = Len(logs)
    /\ Number(FinishedUnits) = Len(logs)
    /\ wg = 0

\* main is about to read the channel and the counter after a run of at least
\* two units
C3_Witness ==
  /\ pc = "result"
  /\ Len(logs) >= 2
  /\ Number(FinishedUnits) = Len(logs)

(***************************************************************************)
(* C4.  The error QueryConcurrency returns after running the units is the  *)
(* error that was sent on the channel first, and it is the error of a unit *)
(* whose query failed in this run.                                         *)
(***************************************************************************)
C4_FirstError ==
  (ReturnedFromRun /\ ret.err # NoErr) =>
    /\ ret.err = firstSent
    /\ \E u \in BagToSet(units) : QueryFailed(u) /\ u.err = ret.err

\* two units failed with different errors; the one sent first was returned
\* and the other is still buffered
C4_Witness ==
  /\ ReturnedFromRun
  /\ Number(FailedUnits) >= 2
  /\ ret.err = firstSent
  /\ Len(errChan) >= 1
  /\ errChan[1] # ret.err

(***************************************************************************)
(* C5.  In every state the units hold at most maxOpenConnections (70)      *)
(* connections of the pool and the pool has at most that many open, however*)
(* many units are launched; a unit beyond the cap waits inside the pool.   *)
(***************************************************************************)
C5_PoolCap ==
  /\ Number(HoldingUnits) <= 70
  /\ numOpen <= 70
  /\ Number(HoldingUnits) = numOpen - idle

\* 70 units hold a connection and one more waits in the pool, which may not
\* open another connection
C5_Witness ==
  /\ Number(HoldingUnits) = 70
  /\ Number(WaitingUnits) >= 1
  /\ idle = 0
  /\ ~PoolMayOpen

(***************************************************************************)
(* C6.  After a configuration error, an extraction error or a failure to   *)
(* open the connection handle, no unit has been launched and no statement  *)
(* has been sent to the database.                                          *)
(***************************************************************************)
C6_AbortBeforeQueries ==
  (pc \in {"fatal", "extractpanic"} \/ ret.err = ConnectError) =>
    /\ launched = 0
    /\ units = EmptyBag
    /\ issued = EmptyBag
    /\ numOpen = 0

\* a run with entries to replay ended on the error of Connection
C6_Witness ==
  /\ pc = "panicked"
  /\ ret.err = ConnectError
  /\ Len(logs) > 0

(***************************************************************************)
(* C7.  A run that ends after QueryConcurrency has printed the summary     *)
(* (success count out of total) as the last thing before it ends; a run    *)
(* whose units were launched ends abnormally when a unit failed and        *)
(* normally when none did.                                                 *)
(***************************************************************************)
SummaryPrinted ==
  /\ stdout # << >>
  /\ stdout[Len(stdout)] = Summary(ret.n, Len(logs))
  /\ \A i \in 1..(Len(stdout) - 1) : stdout[i].what # "summary"

C7_SummaryThenExit ==
  /\ pc \in {"panicked", "exited"} => SummaryPrinted
  /\ (pc \in {"panicked", "exited"} /\ db.open) =>
       (pc = "panicked" <=> Number(FailedUnits) > 0)

\* a run with a failed statement has ended abnormally, the summary printed
C7_Witness ==
  /\ pc = "panicked"
  /\ db.open
  /\ Number(FailedUnits) > 0
  /\ SummaryPrinted


(***************************************************************************)
(* Vocabulary of the properties of ExtractQuery.                           *)
(***************************************************************************)
\* main has called ExtractQuery
Extracted == pc \notin {"config", "extract"}

\* an array element of the expected shape: an object whose jsonPayload is
\* an object whose message is a string
IsEnvelope(e) ==
  /\ e.t = "object"
  /\ "jsonPayload" \in DOMAIN e.fields
  /\ e.fields["jsonPayload"].t = "object"
  /\ "message" \in DOMAIN e.fields["jsonPayload"].fields
  /\ e.fields["jsonPayload"].fields["message"].t = "string"

RawMessage(e) == e.fields["jsonPayload"].fields["message"].s

\* a capture file of the expected shape: a JSON array of envelopes
WellFormed(f) ==
  /\ f.kind = "json"
  /\ f.value.t = "array"
  /\ \A i \in DOMAIN f.value.elems : IsEnvelope(f.value.elems[i])

\* the same letter, whatever its case
SameLetter(c, d) ==
  \/ c = d
  \/ \E i \in DOMAIN UpperSeq : {c, d} = {UpperSeq[i], LowerSeq[i]}

\* keyword kw stands at position i of s as a whole word, in any case: its
\* letters are there and no word character is next to it on either side
WholeWordAt(s, i, kw) ==
  /\ i + Len(kw) - 1 <= Len(s)
  /\ \A j \in 1..Len(kw) : SameLetter(s[i + j - 1], kw[j])
  /\ i = 1 \/ ~IsWordChar(s[i - 1])
  /\ i + Len(kw) > Len(s) \/ ~IsWordChar(s[i + Len(kw)])

KeywordPositions(s) ==
  { i \in 1..Len(s) : \E k \in DOMAIN Keywords : WholeWordAt(s, i, Keywords[k]) }

\* the statement the message holds: from its first whole-word keyword to its
\* end, or nothing
StatementOf(s) ==
  IF KeywordPositions(s) = {} THEN << >>
  ELSE SubSeq(s, CHOOSE i \in KeywordPositions(s) :
                   \A j \in KeywordPositions(s) : i <= j, Len(s))

(***************************************************************************)
(* C8.  For a well-formed capture file of k elements ExtractQuery returns, *)
(* without error, exactly k entries, and the i-th entry is the one made    *)
(* from the i-th element's message, also when that message holds no SQL.   *)
(***************************************************************************)
C8_OnePerElementInOrder ==
  (Extracted /\ WellFormed(file)) =>
    /\ pc = "connect"
    /\ extractErr = "none"
    /\ Len(logs) = Len(file.value.elems)
    /\ \A i \in DOMAIN logs :
         /\ ~logs[i].nil
         /\ logs[i].Message = FindString(RawMessage(file.value.elems[i]))

\* a file of two elements, the first with no SQL, the second with some, has
\* been extracted
C8_Witness ==
  /\ Extracted
  /\ WellFormed(file)
  /\ Len(logs) = 2
  /\ logs[1].Message = << >>
  /\ logs[2].Message # << >>

(***************************************************************************)
(* C9.  For every message the extracted statement is the suffix that starts*)
(* at the first whole-word occurrence, in any case, of SELECT, INSERT,     *)
(* UPDATE, DELETE or WITH RECURSIVE, and it is empty when the message has  *)
(* no such occurrence.                                                     *)
(***************************************************************************)
C9_StatementFromFirstKeyword ==
  (Extracted /\ WellFormed(file)) =>
    \A i \in DOMAIN logs :
      logs[i].Message = StatementOf(RawMessage(file.value.elems[i]))

\* C9 for the messages without U+017F, which is what the pattern gets right
C9_WithoutLongS ==
  (Extracted /\ WellFormed(file)) =>
    \A i \in DOMAIN logs :
      LongS \notin Range(RawMessage(file.value.elems[i])) =>
        logs[i].Message = StatementOf(RawMessage(file.value.elems[i]))

(***************************************************************************)
(* C10.  For a capture file that is JSON but not an array of the expected  *)
(* shape ExtractQuery fails with a decode error and returns no entries.    *)
(***************************************************************************)
C10_WrongShapeRejected ==
  (Extracted /\ file.kind = "json" /\ ~WellFormed(file)) =>
    /\ pc = "extractpanic"
    /\ extractErr = "DecodeError"
    /\ logs = << >>

\* what Unmarshal does reject: a JSON value of a type the Go value cannot
\* take
TypeMismatch(v) ==
  \/ v.t \notin {"array", "null"}
  \/ /\ v.t = "array"
     /\ \E i \in DOMAIN v.elems :
          LET e == v.elems[i]
          IN  \/ e.t \notin {"object", "null"}
              \/ /\ e.t = "object"
                 /\ "jsonPayload" \in DOMAIN e.fields
                 /\ LET q == e.fields["jsonPayload"]
                    IN  \/ q.t \notin {"object", "null"}
                        \/ /\ q.t = "object"
                           /\ "message" \in DOMAIN q.fields
                           /\ q.fields["message"].t \notin {"string", "null"}

\* C10 for the files with a value of a wrong type, and only for them
C10_TypeMismatchRejected ==
  (Extracted /\ file.kind = "json") =>
    (TypeMismatch(file.value) <=>
       pc = "extractpanic" /\ extractErr = "DecodeError" /\ logs = << >>)


(***************************************************************************)
(* C11.  No lost update: at most one unit is inside the increment of the   *)
(* counter (lines 102-103) at a time, and once every unit has finished the *)
(* counter is the number of units whose query returned without error.      *)
(***************************************************************************)
\* the unit holds the mutex: it is between m.Lock() and m.Unlock()
InIncrement(u) == u.pc \in {"read", "write", "unlock"}
IncrementingUnits == { u \in BagToSet(units) : InIncrement(u) }

\* every entry has a unit and every unit has finished
AllFinished ==
  /\ db.open
  /\ launched = Len(logs)
  /\ Number(FinishedUnits) = Len(logs)

C11_NoLostUpdate ==
  /\ Number(IncrementingUnits) <= 1
  /\ AllFinished => numberSuccess = Number(SucceededUnits)

\* all units have finished: two were counted, one failed
C11_Witness ==
  /\ AllFinished
  /\ numberSuccess = 2
  /\ Number(SucceededUnits) = 2
  /\ Number(FailedUnits) = 1

(***************************************************************************)
(* C12.  The error channel never blocks a producer: it has the capacity N, *)
(* it holds one error per unit that has sent (so at most N), and a unit    *)
(* that is about to send finds room in it - while nothing has been read    *)
(* from it.                                                                *)
(***************************************************************************)
\* the unit has sent its error
HasSent(u) == QueryFailed(u) /\ u.pc \in {"done", "finished"}
SentUnits == { u \in BagToSet(units) : HasSent(u) }
\* the unit is at the send of line 98
AtSend(u) == u.pc = "send"
SendingUnits == { u \in BagToSet(units) : AtSend(u) }

C12_SendNeverBlocks ==
  (db.open /\ pc \in {"launch", "wait", "close", "result"}) =>
    /\ chanCap = Len(logs)
    /\ Len(errChan) = Number(SentUnits)
    /\ Len(errChan) <= chanCap
    /\ Number(SendingUnits) > 0 => ~closed /\ Len(errChan) < chanCap

\* every unit of a run of at least two has failed and sent: the channel is
\* full, and main has read nothing yet
C12_Witness ==
  /\ db.open
  /\ pc = "wait"
  /\ chanCap >= 2
  /\ Len(errChan) = chanCap

(***************************************************************************)
(* C13.  The error channel is closed only after every unit has finished:   *)
(* no unit sends on it once it is closed (no send panics), and the check   *)
(* made after the close sees every error that was sent.                    *)
(***************************************************************************)
PanickedOnSend(u) == u.pc = "sendpanic"
SendPanics == { u \in BagToSet(units) : PanickedOnSend(u) }

C13_CloseAfterAllSends ==
  /\ closed => AllFinished
  /\ Number(SendPanics) = 0
  /\ pc = "result" =>
       /\ closed
       /\ Len(errChan) = Number(FailedUnits)
       /\ \A i \in DOMAIN errChan :
            \E u \in FailedUnits : u.err = errChan[i]

\* the channel is closed with two errors in it, before the check of line 109
C13_Witness ==
  /\ pc = "result"
  /\ closed
  /\ Len(errChan) >= 2

(***************************************************************************)
(* C14.  The mutex is held only by a unit whose query has returned rows    *)
(* and that is at the increment: never by a unit that waits for a          *)
(* connection or for its query's result, so the units can be in their      *)
(* queries at the same time, also while another one holds the mutex.       *)
(***************************************************************************)
InQuery(u) == u.pc = "query"
QueryingUnits == { u \in BagToSet(units) : InQuery(u) }

C14_NoLockAcrossQuery ==
  /\ m <=> Number(IncrementingUnits) = 1
  /\ \A u \in IncrementingUnits : QuerySucceeded(u)
  /\ \A u \in WaitingUnits \cup QueryingUnits : ~InIncrement(u)

\* one unit holds the mutex while two others are inside their queries
C14_Witness ==
  /\ m
  /\ Number(IncrementingUnits) = 1
  /\ Number(QueryingUnits) >= 2

(***************************************************************************)
(* C15.  Termination without deadlock.  Under fair scheduling, if no query *)
(* is left unanswered, then once the handle is open every unit finishes    *)
(* and QueryConcurrency returns; and a unit that waits in the pool, also   *)
(* when the units outnumber the 70 connections, gets a connection: the     *)
(* units that hold one while they wait for the mutex do not wait for each  *)
(* other in a circle.                                                      *)
(***************************************************************************)
\* a query is in flight that the database will never answer
Starved == Number(QueryingUnits) > 0 /\ dbAnswers = 0

HungForGood ==
  /\ pc = "wait"
  /\ Number(QueryingUnits) >= 1
  /\ Number(QueryingUnits) + Number(FinishedUnits) = Len(logs)
  /\ numOpen - idle = Number(QueryingUnits)

C16_NoTimeout ==
  /\ [](Number(QueryingUnits) > 0 =>
          /\ pc \in {"launch", "wait"}
          /\ wg >= Number(QueryingUnits)
          /\ numOpen - idle >= Number(QueryingUnits))
  /\ [][Number(QueryingUnits)' < Number(QueryingUnits)
          => dbAnswers' < dbAnswers]_vars
  /\ [](Starved => <>[]HungForGood)

\* one query hangs, the two other units have finished, main waits
C16_Witness ==
  /\ dbAnswers = 0
  /\ pc = "wait"
  /\ Number(QueryingUnits) = 1
  /\ Number(FinishedUnits) = 2

(***************************************************************************)
(* C17.  One unit per entry, one query per unit.  The units launched so    *)
(* far carry the statements of the first entries of the capture, one each, *)
(* the empty statements included; the statements sent to the database are  *)
(* those of the units that have got their connection, each once; and after *)
(* the barrier every entry's statement has been sent exactly once.         *)
(***************************************************************************)
\* the statements of the units of S, with their multiplicities
StatementsOf(S) ==
  [x \in { u.sql : u \in S } |-> Number({ u \in S : u.sql = x })]
\* the statements of the first k entries, with their multiplicities
StatementsOfEntries(k) ==
  [x \in { logs[i].Message : i \in 1..k } |->
     Cardinality({ i \in 1..k : logs[i].Message = x })]
\* QueryConcurrency is past wg.Wait()
PastBarrier == db.open /\ pc \notin {"connect", "launch", "wait"}

C17_OneQueryPerEntry ==
  /\ ~db.open => units = EmptyBag /\ issued = EmptyBag
  /\ db.open =>
       /\ launched <= Len(logs)
       /\ BagCardinality(units) = launched
       /\ StatementsOf(BagToSet(units)) = StatementsOfEntries(launched)
       /\ issued = StatementsOf(BagToSet(units) \ WaitingUnits)
       /\ pc # "launch" => launched = Len(logs)
  /\ PastBarrier => issued = StatementsOfEntries(Len(logs))

\* three entries, one of them with an empty statement, one of them failed:
\* each was sent once
C17_Witness ==
  /\ PastBarrier
  /\ Len(logs) = 3
  /\ BagCardinality(issued) = 3
  /\ CopiesIn(<< >>, issued) = 1
  /\ Number(FailedUnits) >= 1

(***************************************************************************)
(* C18.  Diagnostics per unit.  The diagnostic blocks on standard output   *)
(* are those of the failed units that are past line 97, one block each and *)
(* none for a unit whose query succeeded; a unit's error is in the channel *)
(* only when its block is printed; and after the barrier there are as many *)
(* blocks as failed units.                                                 *)
(***************************************************************************)
\* the positions of standard output that hold a diagnostic block
DiagnosticBlocks == { i \in DOMAIN stdout : stdout[i].what = "diagnostic" }
\* the failed units whose block is printed: they are past line 97
HasPrinted(u) == QueryFailed(u) /\ u.pc \in {"send", "done", "finished"}
PrintedUnits == { u \in BagToSet(units) : HasPrinted(u) }

C18_OneBlockPerFailure ==
  /\ Cardinality(DiagnosticBlocks) = Number(PrintedUnits)
  /\ \A i \in DiagnosticBlocks :
       Cardinality({ j \in DiagnosticBlocks : stdout[j] = stdout[i] })
         = Number({ u \in PrintedUnits : u.sql = stdout[i].sql })
  /\ Number(SentUnits) <= Cardinality(DiagnosticBlocks)
  /\ SentUnits \subseteq PrintedUnits
  /\ PastBarrier => Cardinality(DiagnosticBlocks) = Number(FailedUnits)

\* two units failed and have their two blocks, the third was counted as a
\* success all the same
C18_Witness ==
  /\ PastBarrier
  /\ Cardinality(DiagnosticBlocks) = 2
  /\ Number(FailedUnits) = 2
  /\ numberSuccess = 1

(***************************************************************************)
(* C19.  Accounting.  Inside QueryConcurrency the counter plus the number  *)
(* of buffered errors is at most the number of units whose query has       *)
(* returned, and at most N; the counter never decreases; and once every    *)
(* unit has finished, up to the receive of line 110, the sum is N.         *)
(***************************************************************************)
\* conn.Query has returned in the unit
QueryReturned(u) == u.pc \notin {"start", "query"}
ReturnedUnits == { u \in BagToSet(units) : QueryReturned(u) }

C19_Accounting ==
  /\ [](/\ numberSuccess + Len(errChan) <= Number(ReturnedUnits)
        /\ numberSuccess + Len(errChan) <= Len(logs)
        /\ (AllFinished /\ ~Returned) =>
             numberSuccess + Len(errChan) = Len(logs))
  /\ [][numberSuccess' >= numberSuccess]_vars

\* before the check of line 109: one success counted, two errors buffered
C19_Witness ==
  /\ pc = "result"
  /\ numberSuccess = 1
  /\ Len(errChan) = 2
  /\ Len(logs) = 3

(***************************************************************************)
(* C20.  No connection is held past the barrier.  The connections in use   *)
(* are those of the units between their query's start and rows.Close(): a  *)
(* unit that has failed, or that is at wg.Done() or past it, has none.  So *)
(* past wg.Wait(), and when QueryConcurrency returns, none is in use.      *)
(***************************************************************************)
\* connections of the pool that a unit has and has not given back
InUse == numOpen - idle

C20_NoConnectionPastBarrier ==
  /\ idle >= 0
  /\ InUse >= 0
  /\ db.open => InUse = Number(HoldingUnits)
  /\ InUse <= Number(BagToSet(units) \ (FailedUnits \cup FinishedUnits))
  /\ PastBarrier => InUse = 0

\* QueryConcurrency has returned from a run in which two units had rows to
\* close and one failed: no connection is in use
C20_Witness ==
  /\ ReturnedFromRun
  /\ InUse = 0
  /\ Number(SucceededUnits) = 2
  /\ Number(FailedUnits) = 1

=============================================================================
